---------------------------- MODULE Spec2Model ----------------------------
(***************************************************************************)
(* Discogs -> Shopify sync (src/sync.js).                                  *)
(*                                                                         *)
(* One sequential process (main -> syncFolder -> ensureProductFromDiscogs- *)
(* Item -> upsertProductMetafields -> addToCollectionByHandle) talking to  *)
(* two HTTP services: the source (Discogs) and the catalog (Shopify).      *)
(* Every await on a network call is one step of the model; a call may      *)
(* answer non-2xx, which makes shopifyRest / discogsGet throw.             *)
(*                                                                         *)
(* A JavaScript string is a sequence of one-character strings, so that     *)
(* slugify, trim and the whitespace stripping of the grade tags are        *)
(* computed the way the code computes them.                                *)
(***************************************************************************)
EXTENDS Integers, Sequences, FiniteSets, TLC

(***************************************************************************)
(* Bounds of the model.                                                    *)
(***************************************************************************)
\* items the source delivers in one run, over all pages and folders
MaxItems == 2
\* largest total page count the source reports for a folder
MaxPages == 2
\* non-2xx answers injected in one run
MaxFaults == 1
\* configured folders (SYNC_FOLDERS)
NumFolders == 2
\* the longest string slugify is called on
MaxLen == 3

(***************************************************************************)
(* Strings.                                                                *)
(***************************************************************************)
\* the value of an absent property (undefined / null)
Undefined == <<"undefined">>

UpperChars == <<"A","B","C","D","E","F","G","H","I","J","K","L","M",
                "N","O","P","Q","R","S","T","U","V","W","X","Y","Z">>
LowerChars == <<"a","b","c","d","e","f","g","h","i","j","k","l","m",
                "n","o","p","q","r","s","t","u","v","w","x","y","z">>
DigitChars == <<"0","1","2","3","4","5","6","7","8","9">>

Range(f) == { f[i] : i \in DOMAIN f }

\* \s of a JavaScript regular expression, and what trim() removes
WhiteSpace == {" ", "\t", "\n"}

\* String.prototype.toLowerCase, one character
LowerChar(c) ==
  IF c \in Range(UpperChars)
  THEN LowerChars[CHOOSE i \in DOMAIN UpperChars : UpperChars[i] = c]
  ELSE c

toLowerCase(s) == [i \in DOMAIN s |-> LowerChar(s[i])]

\* Number.prototype.toString of a natural number
RECURSIVE toString(_)
toString(n) ==
  IF n < 10 THEN <<DigitChars[n + 1]>>
  ELSE toString(n \div 10) \o <<DigitChars[(n % 10) + 1]>>

\* [a-z0-9]
IsSlugChar(c) == c \in Range(LowerChars) \cup Range(DigitChars)

\* replace(/[^a-z0-9]+/g, '-'): every maximal run of other characters
\* becomes one hyphen
RECURSIVE ReplaceRuns(_, _)
ReplaceRuns(s, inRun) ==
  IF s = <<>> THEN <<>>
  ELSE IF IsSlugChar(Head(s)) THEN <<Head(s)>> \o ReplaceRuns(Tail(s), FALSE)
  ELSE IF inRun THEN ReplaceRuns(Tail(s), TRUE)
  ELSE <<"-">> \o ReplaceRuns(Tail(s), TRUE)

\* replace(/(^-|-$)/g, ''): one hyphen off the front, one off the end
StripHyphens(s) ==
  LET a == IF s # <<>> /\ Head(s) = "-" THEN Tail(s) ELSE s
  IN  IF a # <<>> /\ a[Len(a)] = "-" THEN SubSeq(a, 1, Len(a) - 1) ELSE a

\* the call throws
TypeError == <<"TypeError">>

\* without the (s || '') guard: undefined.toLowerCase() throws
slugify_Unguarded(s) ==
  IF s = Undefined THEN TypeError
  ELSE StripHyphens(ReplaceRuns(toLowerCase(s), FALSE))

slugify(s) ==
  LET str == IF s = Undefined \/ s = <<>> THEN <<>> ELSE s
  IN  StripHyphens(ReplaceRuns(toLowerCase(str), FALSE))

\* replace(/\s+/g, '')
RECURSIVE StripWhiteSpace(_)
StripWhiteSpace(s) ==
  IF s = <<>> THEN <<>>
  ELSE IF Head(s) \in WhiteSpace THEN StripWhiteSpace(Tail(s))
  ELSE <<Head(s)>> \o StripWhiteSpace(Tail(s))

\* String.prototype.trim
RECURSIVE TrimLeft(_)
TrimLeft(s) ==
  IF s # <<>> /\ Head(s) \in WhiteSpace THEN TrimLeft(Tail(s)) ELSE s

RECURSIVE TrimRight(_)
TrimRight(s) ==
  IF s # <<>> /\ s[Len(s)] \in WhiteSpace
  THEN TrimRight(SubSeq(s, 1, Len(s) - 1)) ELSE s

trim(s) == TrimRight(TrimLeft(s))

\* Array.prototype.join
RECURSIVE join(_, _)
join(parts, sep) ==
  IF parts = <<>> THEN <<>>
  ELSE IF Len(parts) = 1 THEN parts[1]
  ELSE parts[1] \o sep \o join(Tail(parts), sep)

\* x || dflt for a string x: undefined and '' are falsy
OrElse(x, dflt) == IF x = Undefined \/ x = <<>> THEN dflt ELSE x

\* Array.prototype.filter(Boolean) on a list of strings
RECURSIVE filterBoolean(_)
filterBoolean(parts) ==
  IF parts = <<>> THEN <<>>
  ELSE IF Head(parts) = Undefined \/ Head(parts) = <<>>
       THEN filterBoolean(Tail(parts))
       ELSE <<Head(parts)>> \o filterBoolean(Tail(parts))


\* an absent number (undefined)
NoNumber == 0 - 1

\* the one-character strings U+2013 (en dash) and U+2022 (bullet)
EnDash == "&ndash;"
Bullet == "&bull;"

\* `${x}` in a template literal
Template(x) ==
  IF x = Undefined THEN <<"u","n","d","e","f","i","n","e","d">> ELSE x

(***************************************************************************)
(* Transform functions.                                                    *)
(***************************************************************************)
GradePrefix == <<"g","r","a","d","e",":">>
SleevePrefix == <<"s","l","e","e","v","e",":">>
SourceTag == <<"s","o","u","r","c","e",":","d","i","s","c","o","g","s">>
SkuPrefix == <<"D","C","G","-">>
UnknownLabel == <<"U","n","k","n","o","w","n"," ","L","a","b","e","l">>
YearPrefix == <<"Y","e","a","r",":"," ">>

\* the grade as it comes, white space and all
mapGradeTag_Raw(grade) ==
  IF grade = Undefined \/ grade = <<>> THEN Undefined
  ELSE GradePrefix \o grade

mapGradeTag(grade) ==
  IF grade = Undefined \/ grade = <<>> THEN Undefined
  ELSE GradePrefix \o StripWhiteSpace(grade)

buildTitle(artistList, title) ==
  LET artist == IF artistList # Undefined /\ Len(artistList) > 0
                THEN join(artistList, <<",", " ">>)
                ELSE <<>>
  IN  IF artist # <<>> THEN artist \o <<" ", EnDash, " ">> \o Template(title)
      ELSE title

\* the insertion order of a JavaScript Set: first occurrences only
RECURSIVE Dedup(_, _)
Dedup(urls, seen) ==
  IF urls = <<>> THEN <<>>
  ELSE IF Head(urls) \in seen THEN Dedup(Tail(urls), seen)
  ELSE <<Head(urls)>> \o Dedup(Tail(urls), seen \cup {Head(urls)})

\* a URL is an opaque token; "" is an absent one
collectImageUrls(item) ==
  IF ~item.has_basic THEN <<>>
  ELSE Dedup(SelectSeq(<<item.cover_image, item.thumb>> \o item.images,
                       LAMBDA u : u # ""), {})

\* slice(0, 8)
Slice8(xs) == SubSeq(xs, 1, IF Len(xs) < 8 THEN Len(xs) ELSE 8)

\* item.instance_id?.toString()
InstanceIdOf(item) ==
  IF item.instance_id = NoNumber THEN Undefined ELSE toString(item.instance_id)

SkuOf(item) == SkuPrefix \o Template(InstanceIdOf(item))

TitleOf(item) == buildTitle(item.artists, item.title)

HandleOf(item) ==
  slugify(Template(TitleOf(item)) \o <<"-">> \o Template(InstanceIdOf(item)))

FirstLabel(item) == IF item.labels = <<>> THEN Undefined ELSE item.labels[1]

BodyHtmlOf(item) ==
  join(filterBoolean(<<
         join(filterBoolean([i \in DOMAIN item.formats |-> item.formats[i].name]),
              <<",", " ">>),
         FirstLabel(item),
         IF item.year \in {NoNumber, 0} THEN Undefined
         ELSE YearPrefix \o toString(item.year) >>),
       <<" ", Bullet, " ">>)

MediaGradeOf(item) == OrElse(item.media_condition, Undefined)
SleeveGradeOf(item) == OrElse(item.sleeve_condition, Undefined)

SleeveTagOf(item) ==
  IF SleeveGradeOf(item) = Undefined THEN Undefined
  ELSE SleevePrefix \o StripWhiteSpace(SleeveGradeOf(item))

\* [gradeTag, sleeveTag, 'source:discogs'].filter(Boolean).join(', ')
TagsOf(item) ==
  join(filterBoolean(<<mapGradeTag(MediaGradeOf(item)), SleeveTagOf(item),
                       SourceTag>>),
       <<",", " ">>)

ImagesOf(item) == Slice8(collectImageUrls(item))

FormatTextOf(item) ==
  join([i \in DOMAIN item.formats |->
          join(filterBoolean(<<item.formats[i].name>>
                             \o item.formats[i].descriptions), <<" ">>)],
       <<",", " ">>)

\* the metadata fields of one item, in the order of the object literal; the
\* property name 'discogs.notes' is the pair <<"discogs", "notes">>
MetafieldsOf(item) ==
  << [full |-> <<"discogs", "release_id">>,
      raw  |-> IF item.id = NoNumber THEN Undefined ELSE toString(item.id)],
     [full |-> <<"discogs", "master_id">>,
      raw  |-> IF item.master_id \in {NoNumber, 0} THEN <<>>
               ELSE toString(item.master_id)],
     [full |-> <<"discogs", "media_condition">>, raw |-> OrElse(MediaGradeOf(item), <<>>)],
     [full |-> <<"discogs", "sleeve_condition">>, raw |-> OrElse(SleeveGradeOf(item), <<>>)],
     [full |-> <<"discogs", "notes">>, raw |-> OrElse(item.notes, <<>>)],
     [full |-> <<"discogs", "catalog_number">>, raw |-> OrElse(item.catno, <<>>)],
     [full |-> <<"discogs", "label">>, raw |-> OrElse(FirstLabel(item), <<>>)],
     [full |-> <<"discogs", "format">>, raw |-> FormatTextOf(item)],
     [full |-> <<"discogs", "year">>,
      raw  |-> IF item.year = NoNumber THEN <<>> ELSE toString(item.year)],
     [full |-> <<"discogs", "barcode">>, raw |-> OrElse(item.barcode, <<>>)],
     [full |-> <<"discogs", "instance_id">>, raw |-> InstanceIdOf(item)] >>

\* the suffix without the lowercasing
RetryHandle_AsIs(handle, sku) == handle \o <<"-">> \o sku

\* line 188: `${handle}-${sku.toLowerCase()}`
RetryHandle(handle, sku) == handle \o <<"-">> \o toLowerCase(sku)

\* the value as it comes, untrimmed
FieldValue_Untrimmed(raw) == IF raw = Undefined THEN <<>> ELSE raw

\* (raw ?? '').toString().trim()
FieldValue(raw) == trim(IF raw = Undefined THEN <<>> ELSE raw)

\* key === 'notes' ? 'multi_line_text_field' : 'single_line_text_field'
FieldType(key) ==
  IF key = "notes" THEN "multi_line_text_field"
  ELSE "single_line_text_field"

(***************************************************************************)
(* The source: the collection items a page request may deliver.            *)
(***************************************************************************)
ItemA ==
  [ has_basic |-> TRUE, instance_id |-> 1, id |-> 7, master_id |-> 0,
    title |-> <<"B","l">>, artists |-> << <<"J">>, <<"K">> >>, year |-> 1971,
    labels |-> << <<"R">> >>, catno |-> <<>>, barcode |-> <<>>,
    formats |-> << [name |-> <<"L","P">>, descriptions |-> << <<"A">> >>] >>,
    cover_image |-> "c1", thumb |-> "c1", images |-> <<"g1">>,
    media_condition |-> <<"N"," ","M">>, sleeve_condition |-> <<>>,
    notes |-> <<" ","o","k">> ]

\* the same physical copy, regraded, its notes emptied
ItemB ==
  [ ItemA EXCEPT !.media_condition = <<"V","G","+">>, !.notes = <<>> ]

\* another copy: no artists, no media grade, whitespace-only notes
ItemC ==
  [ ItemA EXCEPT !.instance_id = 2, !.id = NoNumber, !.artists = <<>>,
                 !.media_condition = <<>>, !.sleeve_condition = <<"G">>,
                 !.notes = <<" ">>, !.thumb = "", !.images = <<>> ]

ItemPool == {ItemA, ItemB, ItemC}

InstanceIds == { i.instance_id : i \in ItemPool }

\* lines 137-156 and 207-221: what ensureProductFromDiscogsItem derives from
\* an item before its first request, and the trimmed metadata values
Derived ==
  [ i \in ItemPool |->
      [ sku |-> SkuOf(i), handle |-> HandleOf(i), title |-> TitleOf(i),
        body_html |-> BodyHtmlOf(i), tags |-> TagsOf(i),
        vendor |-> OrElse(FirstLabel(i), UnknownLabel),
        barcode |-> OrElse(i.barcode, Undefined), images |-> ImagesOf(i),
        retry_handle |-> RetryHandle(HandleOf(i), SkuOf(i)),
        kv |-> [ k \in DOMAIN MetafieldsOf(i) |->
                   [ full |-> MetafieldsOf(i)[k].full,
                     value |-> FieldValue(MetafieldsOf(i)[k].raw) ] ] ] ]

\* a response without a pagination block
NoPagination == NoNumber

SeqsUpTo(S, k) == UNION { [1..n -> S] : n \in 0..k }

(***************************************************************************)
(* The catalog service (Shopify REST), as the calls of the code use it.    *)
(***************************************************************************)
\* the catalog's reading of a comma-separated tags string
RECURSIVE SplitTags(_, _)
SplitTags(s, acc) ==
  IF s = <<>> THEN (IF trim(acc) = <<>> THEN {} ELSE {trim(acc)})
  ELSE IF Head(s) = ","
       THEN (IF trim(acc) = <<>> THEN {} ELSE {trim(acc)})
            \cup SplitTags(Tail(s), <<>>)
       ELSE SplitTags(Tail(s), Append(acc, Head(s)))

ParseTags(s) == SplitTags(s, <<>>)

HandleTakenBody == "{\"errors\":{\"handle\":[\"has already been taken\"]}}"
ServerErrorBody == "Internal Server Error"

\* the Error thrown by shopifyRest / discogsGet for a non-2xx answer
HttpError(service, method, path, status, text) ==
  [service |-> service, method |-> method, path |-> path,
   status |-> status, text |-> text]

\* a product of the merchant's own, not made by the sync
OwnProduct(pid, handle) ==
  [ id |-> pid, title |-> <<"O","w","n">>, body_html |-> <<>>,
    handle |-> handle, status |-> "active", tags |-> {},
    vendor |-> <<"M">>, product_type |-> "Vinyl", sku |-> <<"O","W","N">>,
    barcode |-> Undefined, images |-> <<>> ]

\* the product an earlier run made for ItemA, since edited by the merchant
EditedProduct ==
  [ id |-> 1, title |-> <<"E","d">>, body_html |-> <<"m">>,
    handle |-> HandleOf(ItemA), status |-> "active",
    tags |-> {SourceTag, GradePrefix \o <<"G">>, <<"s","a","l","e">>},
    vendor |-> <<"R">>, product_type |-> "Vinyl", sku |-> SkuOf(ItemA),
    barcode |-> Undefined, images |-> <<"c1">> ]

EditedNotes ==
  [ id |-> 2, owner |-> 1, namespace |-> "discogs", key |-> "notes",
    type |-> "multi_line_text_field", value |-> <<"o","l","d">> ]

CollectionHandle == <<"v">>
TheCollection == [id |-> 900, handle |-> CollectionHandle]

\* the catalogs a run may start from: empty; the item's handle taken by a
\* product of the merchant's; the retry handle taken too; the item synced
\* by an earlier run and edited since
InitialCatalogs ==
  { [products |-> {}, metafields |-> {}, collections |-> {}, nextId |-> 1],
    [products |-> {OwnProduct(1, HandleOf(ItemA))}, metafields |-> {},
     collections |-> {TheCollection}, nextId |-> 2],
    [products |-> {OwnProduct(1, HandleOf(ItemA)),
                   OwnProduct(2, RetryHandle(HandleOf(ItemA), SkuOf(ItemA)))},
     metafields |-> {}, collections |-> {}, nextId |-> 3],
    [products |-> {EditedProduct}, metafields |-> {EditedNotes},
     collections |-> {TheCollection}, nextId |-> 3] }

(***************************************************************************)
(* State.                                                                  *)
(***************************************************************************)
VARIABLES
  env,            \* process.env: the configuration the module reads at load
  products,       \* catalog: the products
  metafields,     \* catalog: the metadata entries of the products
  collections,    \* catalog: the custom collections
  collects,       \* catalog: the collection membership links
  nextId,         \* catalog: the id the next created object gets
  pc,             \* where the process is
  folderIdx,      \* main: index into FOLDERS
  page,           \* syncFolder: page
  data,           \* syncFolder: the parsed answer to the last page request
  itemIdx,        \* syncFolder: index into data.releases
  variant,        \* findProductBySkuOrMetafield: v.product_id, 0 when none
  existing,       \* ensureProductFromDiscogsItem: existing ({} is null)
  createPayload,  \* ensureProductFromDiscogsItem: createPayload.product
  index,          \* upsertProductMetafields: the listed entries
  kvIdx,          \* upsertProductMetafields: position in Object.entries(kv)
  coll,           \* addToCollectionByHandle: coll.id
  failCount,      \* module-level failCount
  failures,       \* module-level failures
  out,            \* what the process wrote to the console
  faults,         \* non-2xx answers injected so far
  delivered,      \* items the source delivered so far
  attempted,      \* items passed to ensureProductFromDiscogsItem so far
  fetched,        \* the page requests of the current folder, with their answers
  reqs,           \* the catalog requests of the current reconcile call
  calls,          \* the outcomes of the last two reconcile calls
  input,          \* slugify: the argument of a call made on its own
  output,         \* slugify: what that call gave
  run,            \* which start of the process this is, counted from 1
  script,         \* the answers of the source, when they are fixed beforehand
  start,          \* the catalog before the first start
  result          \* the catalog as the earlier starts left it

catalogVars == <<products, metafields, collections, collects, nextId>>
loopVars == <<folderIdx, page, data>>
localVars == <<variant, existing, createPayload, index, kvIdx, coll>>
auxVars == <<input, output, run, script, start, result>>
vars == <<env, catalogVars, pc, loopVars, itemIdx, localVars, failCount,
          failures, out, faults, delivered, attempted, fetched, reqs, calls,
          auxVars>>

(***************************************************************************)
(* Module-level configuration.                                             *)
(***************************************************************************)
\* a check that forgets the source token
RequiredEnv_NoSourceToken ==
  {"SHOPIFY_STORE_DOMAIN", "SHOPIFY_ADMIN_TOKEN", "DISCOGS_USERNAME"}

RequiredEnv == {"SHOPIFY_STORE_DOMAIN", "SHOPIFY_ADMIN_TOKEN",
                "DISCOGS_USERNAME", "DISCOGS_TOKEN"}

\* (process.env.SYNC_FOLDERS || '0').split(',').map(s => s.trim())
FOLDERS == [i \in 1..NumFolders |-> toString(i - 1)]

\* process.env.DEFAULT_PRODUCT_STATUS || 'draft'
DEFAULT_STATUS ==
  IF env.DEFAULT_PRODUCT_STATUS = "" THEN "draft"
  ELSE env.DEFAULT_PRODUCT_STATUS

\* process.env.COLLECTION_HANDLE || null
COLLECTION_HANDLE == OrElse(env.COLLECTION_HANDLE, Undefined)

\* !SHOPIFY_DOMAIN || !SHOPIFY_TOKEN || !DISCOGS_USERNAME || !DISCOGS_TOKEN
ConfigMissing == \E k \in RequiredEnv : ~env[k]

\* a required value is modelled by whether it is set; the optional values
\* are left unset, or both set
Environments ==
  { [ SHOPIFY_STORE_DOMAIN |-> a, SHOPIFY_ADMIN_TOKEN |-> b,
      DISCOGS_USERNAME |-> c, DISCOGS_TOKEN |-> d,
      DEFAULT_PRODUCT_STATUS |-> o[1], COLLECTION_HANDLE |-> o[2] ] :
      a \in BOOLEAN, b \in BOOLEAN, c \in BOOLEAN, d \in BOOLEAN,
      o \in { <<"", Undefined>>, <<"active", CollectionHandle>> } }

\* no call of slugify on its own was made
NotCalled == <<"not called">>

\* the source answers as it likes
NoScript == <<>>

\* no earlier start has left a catalog
NoResult == <<>>

(***************************************************************************)
(* Initial state: the module has been loaded, nothing has run.             *)
(***************************************************************************)
Init ==
  /\ env \in Environments
  /\ \E c \in InitialCatalogs :
       /\ products = c.products
       /\ metafields = c.metafields
       /\ collections = c.collections
       /\ nextId = c.nextId
  /\ collects = {}
  /\ pc = "boot"
  /\ folderIdx = 0
  /\ page = 0
  /\ data = [releases |-> <<>>, pagination |-> NoPagination]
  /\ itemIdx = 0
  /\ variant = 0
  /\ existing = {}
  /\ createPayload = <<>>
  /\ index = {}
  /\ kvIdx = 0
  /\ coll = 0
  /\ failCount = 0
  /\ failures = <<>>
  /\ out = <<>>
  /\ faults = 0
  /\ delivered = 0
  /\ attempted = 0
  /\ fetched = <<>>
  /\ reqs = <<>>
  /\ calls = <<>>
  /\ input = <<>>
  /\ output = NotCalled
  /\ run = 1
  /\ script = NoScript
  /\ start = [products |-> products, metafields |-> metafields]
  /\ result = NoResult

(***************************************************************************)
(* main and the configuration check.                                       *)
(***************************************************************************)
Log(text) == [stream |-> "stdout", text |-> text]
LogError(text) == [stream |-> "stderr", text |-> text]

\* lines 22-25: the check at module load; lines 258-259: main starts
Boot ==
  /\ pc = "boot"
  /\ \/ /\ ConfigMissing
        /\ out' = Append(out, LogError("Missing required env vars."))
        /\ pc' = "exit1"
        /\ folderIdx' = folderIdx
     \/ /\ ~ConfigMissing
        /\ out' = Append(out, Log("Starting"))
        /\ pc' = "folders"
        /\ folderIdx' = 1
  /\ UNCHANGED <<env, auxVars, catalogVars, page, data, itemIdx, localVars, failCount,
                 failures, faults, delivered, attempted, fetched, reqs, calls>>

\* lines 260-262: for (const f of FOLDERS), the next folder
MainNextFolder ==
  /\ pc = "folders"
  /\ folderIdx <= Len(FOLDERS)
  /\ out' = Append(out, Log("Syncing Discogs folder"))
  /\ page' = 1
  /\ fetched' = <<>>
  /\ pc' = "fetch"
  /\ UNCHANGED <<env, auxVars, catalogVars, folderIdx, data, itemIdx, localVars,
                 failCount, failures, faults, delivered, attempted, reqs,
                 calls>>

\* a summary that prints every failure
First20_All(fs) == fs

\* failures.slice(0, 20)
First20(fs) == SubSeq(fs, 1, IF Len(fs) < 20 THEN Len(fs) ELSE 20)

\* lines 264-271: the loop is over, the summary and the completion message
MainSummary ==
  /\ pc = "folders"
  /\ folderIdx > Len(FOLDERS)
  /\ \/ /\ failCount > 0
        /\ out' = out \o <<[stream |-> "stdout", text |-> "Sync finished with failed item(s).",
                            count |-> failCount]>>
                      \o [i \in 1..Len(First20(failures)) |->
                            [stream |-> "stdout", text |-> "- failure",
                             detail |-> failures[i]]]
                      \o <<Log("Sync complete.")>>
     \/ /\ failCount = 0
        /\ out' = out \o <<[stream |-> "stdout", text |-> "Sync finished with 0 failures.",
                            count |-> 0]>>
                      \o <<Log("Sync complete.")>>
  /\ pc' = "done"
  /\ UNCHANGED <<env, auxVars, catalogVars, loopVars, itemIdx, localVars, failCount,
                 failures, faults, delivered, attempted, fetched, reqs, calls>>

(***************************************************************************)
(* syncFolder.                                                             *)
(***************************************************************************)
Cur == data.releases[itemIdx]

\* what the claims read of the catalog: the products with SKU and tags, and
\* the metadata entries of each product (namespace.key -> value)
View ==
  [ products   |-> { [id |-> q.id, sku |-> q.sku, tags |-> q.tags] : q \in products },
    metafields |-> { [id |-> m.id, owner |-> m.owner,
                      full |-> <<m.namespace, m.key>>, value |-> m.value] :
                     m \in metafields } ]

Outcome(ok) == [item |-> Cur, ok |-> ok, view |-> View]

Push(o) == IF Len(calls) = 2 THEN <<calls[2], o>> ELSE Append(calls, o)

ResetLocals ==
  /\ variant' = 0
  /\ existing' = {}
  /\ createPayload' = <<>>
  /\ index' = {}
  /\ kvIdx' = 0
  /\ coll' = 0

\* a catch that only logs
Caught_LogOnly(e) ==
  /\ out' = Append(out, [stream |-> "stderr", text |-> "Failed item",
                         instance |-> Cur.instance_id, msg |-> e])
  /\ itemIdx' = itemIdx + 1
  /\ pc' = "items"
  /\ calls' = Push(Outcome(FALSE))
  /\ ResetLocals
  /\ UNCHANGED <<failCount, failures>>

\* lines 245-250: the catch of the item loop, entered in the step that threw
Caught(e) ==
  /\ failCount' = failCount + 1
  /\ failures' = Append(failures, [instance |-> Cur.instance_id, msg |-> e])
  /\ out' = Append(out, [stream |-> "stderr", text |-> "Failed item",
                         instance |-> Cur.instance_id, msg |-> e])
  /\ itemIdx' = itemIdx + 1
  /\ pc' = "items"
  /\ calls' = Push(Outcome(FALSE))
  /\ ResetLocals

\* lines 226 and 244, 250: ensureProductFromDiscogsItem returned
Returned ==
  /\ itemIdx' = itemIdx + 1
  /\ pc' = "items"
  /\ calls' = Push(Outcome(TRUE))
  /\ ResetLocals
  /\ UNCHANGED <<failCount, failures, out>>

\* a catch that lets the error through to the caller
Swallowed_Rethrown(e) == Caught(e)

\* lines 131-133 and 224-226: catch { } swallows the error, and
\* ensureProductFromDiscogsItem returns the product
Swallowed(e) == Returned

Request(method, path, id, body) ==
  [method |-> method, path |-> path, id |-> id, body |-> body]

\* a catalog request that the service answers
Sent(r) ==
  /\ reqs' = Append(reqs, r)
  /\ UNCHANGED faults

\* a catalog request that an injected fault answers with 500
Faulted(r) ==
  /\ faults < MaxFaults
  /\ faults' = faults + 1
  /\ reqs' = Append(reqs, r)

ServerError(r) == HttpError("Shopify", r.method, r.path, 500, ServerErrorBody)

\* a rejection that is caught and the folder tried again
Unhandled_Retried(e) ==
  /\ out' = Append(out, [stream |-> "stderr", text |-> "Unhandled rejection",
                         msg |-> e])
  /\ pc' = "folders"

\* lines 258-272: main has no catch, and nothing awaits main: the rejection
\* of syncFolder ends the process with what was written so far
Unhandled(e) ==
  /\ out' = Append(out, [stream |-> "stderr", text |-> "Unhandled rejection",
                         msg |-> e])
  /\ pc' = "crashed"

\* what the source may answer to the request for page p of folder f: any
\* page of items within the bounds, or the page the script has for it
Answers(f, p) ==
  IF script = NoScript
  THEN { [releases |-> r, pagination |-> n] :
           r \in SeqsUpTo(ItemPool, MaxItems - delivered),
           n \in {NoPagination} \cup (1..MaxPages) }
  ELSE { script[f][p] }

\* lines 235-240: the page request
Fetch ==
  /\ pc = "fetch"
  /\ \/ /\ \E answer \in Answers(folderIdx, page) :
             /\ data' = answer
             /\ delivered' = delivered + Len(answer.releases)
             /\ fetched' = Append(fetched, [page |-> page, ok |-> TRUE,
                                            pages |-> answer.pagination])
        /\ itemIdx' = 1
        /\ pc' = "items"
        /\ UNCHANGED <<faults, out>>
     \/ \* discogsGet throws; nothing catches it: main's promise rejects
        /\ faults < MaxFaults
        /\ faults' = faults + 1
        /\ fetched' = Append(fetched, [page |-> page, ok |-> FALSE,
                                       pages |-> NoPagination])
        /\ Unhandled(HttpError("Discogs", "GET", "/releases", 500,
                               ServerErrorBody))
        /\ UNCHANGED <<data, delivered, itemIdx>>
  /\ UNCHANGED <<env, auxVars, catalogVars, folderIdx, page, localVars, failCount,
                 failures, attempted, reqs, calls>>

\* lines 242-244: the next item of the page goes to reconciliation
BeginItem ==
  /\ pc = "items"
  /\ itemIdx <= Len(data.releases)
  /\ attempted' = attempted + 1
  /\ reqs' = <<>>
  /\ pc' = "find_variants"
  /\ UNCHANGED <<env, auxVars, catalogVars, loopVars, itemIdx, localVars, failCount,
                 failures, out, faults, delivered, fetched, calls>>

\* a comparison that is off by one
LastPage_Strict(p, pagination) == pagination = NoPagination \/ p > pagination

\* line 253: !data.pagination || page >= data.pagination.pages
LastPage(p, pagination) == pagination = NoPagination \/ p >= pagination

\* a page that is left before its last item was passed on
EndPage_Early ==
  /\ pc = "items"
  /\ \/ /\ LastPage(page, data.pagination)
        /\ folderIdx' = folderIdx + 1
        /\ pc' = "folders"
        /\ page' = page
     \/ /\ ~LastPage(page, data.pagination)
        /\ page' = page + 1
        /\ pc' = "fetch"
        /\ folderIdx' = folderIdx
  /\ UNCHANGED <<env, auxVars, catalogVars, data, itemIdx, localVars, failCount,
                 failures, out, faults, delivered, attempted, fetched, reqs,
                 calls>>

\* lines 253-254: the page is done
EndPage ==
  /\ pc = "items"
  /\ itemIdx > Len(data.releases)
  /\ \/ /\ LastPage(page, data.pagination)
        /\ folderIdx' = folderIdx + 1
        /\ pc' = "folders"
        /\ page' = page
     \/ /\ ~LastPage(page, data.pagination)
        /\ page' = page + 1
        /\ pc' = "fetch"
        /\ folderIdx' = folderIdx
  /\ UNCHANGED <<env, auxVars, catalogVars, data, itemIdx, localVars, failCount,
                 failures, out, faults, delivered, attempted, fetched, reqs,
                 calls>>

(***************************************************************************)
(* ensureProductFromDiscogsItem.                                           *)
(***************************************************************************)
\* a payload whose variant has no SKU
CreatePayloadOf_NoSku(item) ==
  [ title |-> Derived[item].title, body_html |-> Derived[item].body_html,
    handle |-> Derived[item].handle, status |-> DEFAULT_STATUS,
    tags |-> Derived[item].tags, vendor |-> Derived[item].vendor,
    product_type |-> "Vinyl", sku |-> Undefined,
    barcode |-> Derived[item].barcode, images |-> Derived[item].images ]

\* lines 162-180: createPayload.product (the constant price and inventory
\* fields of the variant are left out)
CreatePayloadOf(item) ==
  [ title |-> Derived[item].title, body_html |-> Derived[item].body_html,
    handle |-> Derived[item].handle, status |-> DEFAULT_STATUS,
    tags |-> Derived[item].tags, vendor |-> Derived[item].vendor,
    product_type |-> "Vinyl", sku |-> Derived[item].sku,
    barcode |-> Derived[item].barcode, images |-> Derived[item].images ]

\* an update that sends the whole product again
UpdatePayloadOf_Full(prod, item) ==
  [ id |-> prod.id, tags |-> Derived[item].tags, title |-> Derived[item].title,
    body_html |-> Derived[item].body_html, images |-> Derived[item].images ]

\* lines 201-203: the body of the update
UpdatePayloadOf(prod, item) == [id |-> prod.id, tags |-> Derived[item].tags]

\* the catalog stores a created product
Created(payload, pid) ==
  [ id |-> pid, title |-> payload.title, body_html |-> payload.body_html,
    handle |-> payload.handle, status |-> payload.status,
    tags |-> ParseTags(payload.tags), vendor |-> payload.vendor,
    product_type |-> payload.product_type, sku |-> payload.sku,
    barcode |-> payload.barcode, images |-> payload.images ]

\* the catalog applies a PUT: the fields the body names, and no others
Patched(prod, body) ==
  [ f \in DOMAIN prod |->
      IF f \in DOMAIN body
      THEN (IF f = "tags" THEN ParseTags(body[f]) ELSE body[f])
      ELSE prod[f] ]

HandleTaken(handle) == \E q \in products : q.handle = handle

\* a catch that takes every error for the collision
IsHandleCollision_Any(e) == TRUE

\* String(e.message).includes('"handle":["has already been taken"]')
IsHandleCollision(e) == e.text = HandleTakenBody

MinId(S) == CHOOSE x \in S : \A y \in S : x <= y
MaxId(S) == CHOOSE x \in S : \A y \in S : x >= y

\* a query that leaves out the products that are not active
VariantsBySku_ActiveOnly(sku) ==
  { q.id : q \in { x \in products : x.sku = sku /\ x.status = "active" } }

\* the catalog answers the variant query: the products with a variant of
\* exactly this SKU
VariantsBySku(sku) == { q.id : q \in { x \in products : x.sku = sku } }

\* a lookup that never finds the product (reading a property the variant
\* does not have)
FirstVariant_Undefined(hits) == 0

\* lines 94-95: variants.variants?.[0] and v?.product_id; 0 when there is none
FirstVariant(hits) == IF hits = {} THEN 0 ELSE MinId(hits)

\* lines 93-95 and 159-161: the variant query
FindVariants ==
  /\ pc = "find_variants"
  /\ LET r == Request("GET", "/variants.json?sku=", 0, [sku |-> Derived[Cur].sku])
         hits == VariantsBySku(Derived[Cur].sku)
     IN  \/ /\ FirstVariant(hits) = 0
            /\ Sent(r)
            /\ createPayload' = CreatePayloadOf(Cur)
            /\ pc' = "create"
            /\ UNCHANGED <<variant, existing, index, kvIdx, coll, itemIdx,
                           failCount, failures, out, calls>>
         \/ /\ FirstVariant(hits) # 0
            /\ Sent(r)
            /\ variant' = FirstVariant(hits)
            /\ pc' = "find_product"
            /\ UNCHANGED <<existing, createPayload, index, kvIdx, coll,
                           itemIdx, failCount, failures, out, calls>>
         \/ /\ Faulted(r)
            /\ Caught(ServerError(r))
  /\ UNCHANGED <<env, auxVars, catalogVars, loopVars, delivered, attempted, fetched>>

\* lines 96-97: the product of the variant
FindProduct ==
  /\ pc = "find_product"
  /\ LET r == Request("GET", "/products/{id}.json", variant, <<>>)
     IN  \/ /\ Sent(r)
            /\ existing' = { q \in products : q.id = variant }
            /\ pc' = "update"
            /\ UNCHANGED <<variant, createPayload, index, kvIdx, coll,
                           itemIdx, failCount, failures, out, calls>>
         \/ /\ Faulted(r)
            /\ Caught(ServerError(r))
  /\ UNCHANGED <<env, auxVars, catalogVars, loopVars, delivered, attempted, fetched>>

\* lines 182-194: the create, and the catch that looks for the collision
Create ==
  /\ pc = "create"
  /\ LET r == Request("POST", "/products.json", 0, createPayload)
     IN  \/ /\ ~HandleTaken(createPayload.handle)
            /\ Sent(r)
            /\ products' = products \cup {Created(createPayload, nextId)}
            /\ nextId' = nextId + 1
            /\ existing' = {Created(createPayload, nextId)}
            /\ pc' = "mf_list"
            /\ UNCHANGED <<variant, createPayload, index, kvIdx, coll,
                           itemIdx, failCount, failures, out, calls>>
         \/ \E e \in { HttpError("Shopify", r.method, r.path, 422,
                                  HandleTakenBody),
                        ServerError(r) } :
              /\ \/ /\ e.status = 422
                    /\ HandleTaken(createPayload.handle)
                    /\ Sent(r)
                 \/ /\ e.status = 500
                    /\ Faulted(r)
              /\ UNCHANGED <<products, nextId>>
              /\ IF IsHandleCollision(e)
                 THEN /\ createPayload' =
                           [createPayload EXCEPT
                              !.handle = Derived[Cur].retry_handle]
                      /\ pc' = "create_retry"
                      /\ UNCHANGED <<variant, existing, index, kvIdx, coll,
                                     itemIdx, failCount, failures, out, calls>>
                 ELSE Caught(e)
  /\ UNCHANGED <<env, auxVars, metafields, collections, collects, loopVars, delivered,
                 attempted, fetched>>

\* lines 188-190: the one retry, outside any try
CreateRetry ==
  /\ pc = "create_retry"
  /\ LET r == Request("POST", "/products.json", 0, createPayload)
     IN  \/ /\ ~HandleTaken(createPayload.handle)
            /\ Sent(r)
            /\ products' = products \cup {Created(createPayload, nextId)}
            /\ nextId' = nextId + 1
            /\ existing' = {Created(createPayload, nextId)}
            /\ pc' = "mf_list"
            /\ UNCHANGED <<variant, createPayload, index, kvIdx, coll,
                           itemIdx, failCount, failures, out, calls>>
         \/ /\ HandleTaken(createPayload.handle)
            /\ Sent(r)
            /\ Caught(HttpError("Shopify", r.method, r.path, 422,
                                HandleTakenBody))
            /\ UNCHANGED <<products, nextId>>
         \/ /\ Faulted(r)
            /\ Caught(ServerError(r))
            /\ UNCHANGED <<products, nextId>>
  /\ UNCHANGED <<env, auxVars, metafields, collections, collects, loopVars, delivered,
                 attempted, fetched>>

\* lines 199-204: the update
Update ==
  /\ pc = "update"
  /\ LET prod == CHOOSE q \in existing : TRUE
         r == Request("PUT", "/products/{id}.json", prod.id,
                      UpdatePayloadOf(prod, Cur))
     IN  \/ /\ Sent(r)
            /\ products' = { IF q.id = r.body.id THEN Patched(q, r.body) ELSE q :
                             q \in products }
            /\ pc' = "mf_list"
            /\ UNCHANGED <<variant, existing, createPayload, index, kvIdx,
                           coll, itemIdx, failCount, failures, out, calls>>
         \/ /\ Faulted(r)
            /\ Caught(ServerError(r))
            /\ UNCHANGED products
  /\ UNCHANGED <<env, auxVars, metafields, collections, collects, nextId, loopVars,
                 delivered, attempted, fetched>>

(***************************************************************************)
(* upsertProductMetafields.                                                *)
(***************************************************************************)
Owner == (CHOOSE q \in existing : TRUE).id

KV == Derived[Cur].kv

\* line 111: const [namespace, key] = full.split('.')
Namespace(full) == full[1]
Key(full) == full[2]

\* an index keyed by the bare key, which no 'namespace.key' lookup finds
IndexKey_NoNamespace(m) == <<m.key>>

\* line 105: the key of a listed entry in the index, `${m.namespace}.${m.key}`
IndexKey(m) == <<m.namespace, m.key>>

\* an index that is never consulted: every field is created anew
Current_AlwaysNew(full) == {}

\* line 112: index.get(full); of the listed entries with this key the Map
\* keeps the one listed last
Current(full) ==
  LET hits == { m \in index : IndexKey(m) = full }
  IN  IF hits = {} THEN {}
      ELSE { m \in hits : m.id = MaxId({ h.id : h \in hits }) }

\* no field is skipped
IsBlank_Never(value) == FALSE

\* line 109: if (!value) continue
IsBlank(value) == value = <<>>

\* lines 104-105: the listing
ListMetafields ==
  /\ pc = "mf_list"
  /\ LET r == Request("GET", "/products/{id}/metafields.json", Owner, <<>>)
     IN  \/ /\ Sent(r)
            /\ index' = { m \in metafields : m.owner = Owner }
            /\ kvIdx' = 1
            /\ pc' = "mf_loop"
            /\ UNCHANGED <<variant, existing, createPayload, coll, itemIdx,
                           failCount, failures, out, calls>>
         \/ /\ Faulted(r)
            /\ Caught(ServerError(r))
  /\ UNCHANGED <<env, auxVars, catalogVars, loopVars, delivered, attempted, fetched>>

\* lines 107-121: one turn of the loop over Object.entries(kv)
UpsertField ==
  /\ pc = "mf_loop"
  /\ kvIdx <= Len(KV)
  /\ LET full == KV[kvIdx].full
         value == KV[kvIdx].value
         current == Current(full)
         cid == (CHOOSE m \in current : TRUE).id
         put == Request("PUT", "/metafields/{id}.json", cid,
                        [id |-> cid, value |-> value])
         post == Request("POST", "/products/{id}/metafields.json", Owner,
                         [namespace |-> Namespace(full), key |-> Key(full),
                          type |-> FieldType(Key(full)), value |-> value])
     IN  \/ /\ IsBlank(value)
            /\ kvIdx' = kvIdx + 1
            /\ UNCHANGED <<metafields, nextId, faults, reqs, pc, variant,
                           existing, createPayload, index, coll, itemIdx,
                           failCount, failures, out, calls>>
         \/ /\ ~IsBlank(value)
            /\ current # {}
            /\ Sent(put)
            /\ metafields' = { IF m.id = put.id
                               THEN [m EXCEPT !.value = put.body.value] ELSE m :
                               m \in metafields }
            /\ kvIdx' = kvIdx + 1
            /\ UNCHANGED <<nextId, pc, variant, existing, createPayload,
                           index, coll, itemIdx, failCount, failures, out,
                           calls>>
         \/ /\ ~IsBlank(value)
            /\ current = {}
            /\ Sent(post)
            /\ metafields' = metafields \cup
                 { [id |-> nextId, owner |-> post.id,
                    namespace |-> post.body.namespace, key |-> post.body.key,
                    type |-> post.body.type, value |-> post.body.value] }
            /\ nextId' = nextId + 1
            /\ kvIdx' = kvIdx + 1
            /\ UNCHANGED <<pc, variant, existing, createPayload, index, coll,
                           itemIdx, failCount, failures, out, calls>>
         \/ /\ ~IsBlank(value)
            /\ Faulted(IF current # {} THEN put ELSE post)
            /\ Caught(ServerError(IF current # {} THEN put ELSE post))
            /\ UNCHANGED <<metafields, nextId>>
  /\ UNCHANGED <<env, auxVars, products, collections, collects, loopVars, delivered,
                 attempted, fetched>>

(***************************************************************************)
(* addToCollectionByHandle.                                                *)
(***************************************************************************)
\* line 122 -> lines 224-226: the loop is over; line 125: if (!handle) return
UpsertDone ==
  /\ pc = "mf_loop"
  /\ kvIdx > Len(KV)
  /\ \/ /\ COLLECTION_HANDLE = Undefined
        /\ Returned
     \/ /\ COLLECTION_HANDLE # Undefined
        /\ pc' = "coll_find"
        /\ UNCHANGED <<localVars, itemIdx, failCount, failures, out, calls>>
  /\ UNCHANGED <<env, auxVars, catalogVars, loopVars, faults, delivered, attempted,
                 fetched, reqs>>

\* lines 127-129: the collection lookup; a failure is swallowed (line 131)
FindCollection ==
  /\ pc = "coll_find"
  /\ LET r == Request("GET", "/custom_collections.json?handle=", 0,
                      [handle |-> COLLECTION_HANDLE])
         hits == { c.id : c \in { x \in collections : x.handle = COLLECTION_HANDLE } }
     IN  \/ /\ hits # {}
            /\ Sent(r)
            /\ coll' = MinId(hits)
            /\ pc' = "coll_add"
            /\ UNCHANGED <<variant, existing, createPayload, index, kvIdx,
                           itemIdx, failCount, failures, out, calls>>
         \/ /\ hits = {}
            /\ Sent(r)
            /\ Returned
         \/ /\ Faulted(r)
            /\ Swallowed(ServerError(r))
  /\ UNCHANGED <<env, auxVars, catalogVars, loopVars, delivered, attempted, fetched>>

\* line 130: the membership link; a failure is swallowed (line 131).  The
\* catalog refuses a link that already exists.
AddCollect ==
  /\ pc = "coll_add"
  /\ LET link == [product_id |-> Owner, collection_id |-> coll]
         r == Request("POST", "/collects.json", 0, link)
     IN  \/ /\ link \notin collects
            /\ Sent(r)
            /\ collects' = collects \cup {link}
            /\ Returned
         \/ /\ link \in collects
            /\ Sent(r)
            /\ UNCHANGED collects
            /\ Swallowed(HttpError("Shopify", r.method, r.path, 422,
                                   "already exists"))
         \/ /\ Faulted(r)
            /\ UNCHANGED collects
            /\ Swallowed(ServerError(r))
  /\ UNCHANGED <<env, auxVars, products, metafields, collections, nextId, loopVars,
                 delivered, attempted, fetched>>

(***************************************************************************)
(* Specification.                                                          *)
(***************************************************************************)
Next ==
  \/ Boot
  \/ MainNextFolder
  \/ MainSummary
  \/ Fetch
  \/ BeginItem
  \/ EndPage
  \/ FindVariants
  \/ FindProduct
  \/ Create
  \/ CreateRetry
  \/ Update
  \/ ListMetafields
  \/ UpsertField
  \/ UpsertDone
  \/ FindCollection
  \/ AddCollect

Spec == Init /\ [][Next]_vars

\* the process is one thread that runs to its end: no step waits forever
FairSpec == Spec /\ WF_vars(Next)

(***************************************************************************)
(* slugify called on its own, on every short string and on undefined.      *)
(***************************************************************************)
SlugAlphabet == {"a", "Z", "7", "-", " ", "&ndash;"}

SlugInputs == {Undefined} \cup SeqsUpTo(SlugAlphabet, MaxLen)

SlugifyInit ==
  /\ input \in SlugInputs
  /\ output = NotCalled
  /\ env \in { e \in Environments : \A k \in RequiredEnv : e[k] }
  /\ products = {} /\ metafields = {} /\ collections = {} /\ collects = {}
  /\ nextId = 1
  /\ pc = "boot"
  /\ folderIdx = 0 /\ page = 0 /\ itemIdx = 0
  /\ data = [releases |-> <<>>, pagination |-> NoPagination]
  /\ variant = 0 /\ existing = {} /\ createPayload = <<>> /\ index = {}
  /\ kvIdx = 0 /\ coll = 0
  /\ failCount = 0 /\ failures = <<>> /\ out = <<>>
  /\ faults = 0 /\ delivered = 0 /\ attempted = 0
  /\ fetched = <<>> /\ reqs = <<>> /\ calls = <<>>
  /\ run = 1 /\ script = NoScript /\ result = NoResult
  /\ start = [products |-> {}, metafields |-> {}]

\* lines 29-35: one call of slugify
CallSlugify ==
  /\ output = NotCalled
  /\ output' = slugify(input)
  /\ UNCHANGED <<env, catalogVars, pc, loopVars, itemIdx, localVars,
                 failCount, failures, out, faults, delivered, attempted,
                 fetched, reqs, calls, input, run, script, start, result>>

SlugifyNext == CallSlugify

SlugifySpec == SlugifyInit /\ [][SlugifyNext]_vars

(***************************************************************************)
(* The process started again on the same source.                           *)
(***************************************************************************)
EmptyPage == [releases |-> <<>>, pagination |-> NoPagination]

\* the folders after the second are empty
Folders(first, second) ==
  [f \in 1..NumFolders |->
     IF f = 1 THEN first ELSE IF f = 2 THEN second ELSE <<EmptyPage>>]

\* two items of the source: on two pages of a folder, or in two folders
Scripts ==
  { Folders(<<[releases |-> <<x>>, pagination |-> 2],
              [releases |-> <<y>>, pagination |-> 2]>>, <<EmptyPage>>) :
      x \in ItemPool, y \in ItemPool }
  \cup
  { Folders(<<[releases |-> <<x>>, pagination |-> 1]>>,
            <<[releases |-> <<y>>, pagination |-> NoPagination]>>) :
      x \in ItemPool, y \in ItemPool }

\* the items of the script, in the order in which a run passes them on
RECURSIVE Flatten(_)
Flatten(ss) == IF ss = <<>> THEN <<>> ELSE Head(ss) \o Flatten(Tail(ss))

ScriptItems ==
  Flatten([f \in 1..NumFolders |->
             Flatten([p \in DOMAIN script[f] |-> script[f][p].releases])])

\* the catalog without the ids the service gave: every product with its
\* metadata, and the number of products and of entries
Canon ==
  [ products |-> { [ product |-> [q EXCEPT !.id = 0],
                     meta |-> { <<m.namespace, m.key, m.value>> :
                                m \in { x \in metafields : x.owner = q.id } },
                     entries |-> Cardinality({ x \in metafields :
                                               x.owner = q.id }) ] :
                   q \in products },
    count |-> Cardinality(products) ]

RestartInit ==
  /\ env \in { e \in Environments :
                /\ \A k \in RequiredEnv : e[k]
                /\ e.COLLECTION_HANDLE # Undefined }
  /\ \E c \in InitialCatalogs :
       /\ products = c.products
       /\ metafields = c.metafields
       /\ collections = c.collections
       /\ nextId = c.nextId
  /\ collects = {}
  /\ pc = "boot"
  /\ folderIdx = 0 /\ page = 0 /\ itemIdx = 0
  /\ data = [releases |-> <<>>, pagination |-> NoPagination]
  /\ variant = 0 /\ existing = {} /\ createPayload = <<>> /\ index = {}
  /\ kvIdx = 0 /\ coll = 0
  /\ failCount = 0 /\ failures = <<>> /\ out = <<>>
  /\ faults = 0 /\ delivered = 0 /\ attempted = 0
  /\ fetched = <<>> /\ reqs = <<>> /\ calls = <<>>
  /\ input = <<>> /\ output = NotCalled
  /\ run = 1
  /\ script \in Scripts
  /\ start = [products |-> products, metafields |-> metafields]
  /\ result = NoResult

\* lines 11-25 and 229-230: a new process loads the module
ProcessStarts ==
  /\ pc' = "boot"
  /\ folderIdx' = 0 /\ page' = 0 /\ itemIdx' = 0
  /\ data' = [releases |-> <<>>, pagination |-> NoPagination]
  /\ ResetLocals
  /\ failCount' = 0 /\ failures' = <<>> /\ out' = <<>>
  /\ delivered' = 0 /\ attempted' = 0
  /\ fetched' = <<>> /\ reqs' = <<>> /\ calls' = <<>>

\* the process, wherever it is after the configuration check, stops or has
\* ended, and is started again on the catalog as it is; no request fails
\* from here on
Restart ==
  /\ run = 1
  /\ pc \notin {"boot", "exit1"}
  /\ run' = 2
  /\ result' = [stopped |-> Canon, failCount |-> failCount, pc |-> pc]
  /\ faults' = MaxFaults
  /\ ProcessStarts
  /\ UNCHANGED <<env, catalogVars, input, output, script, start>>

\* for comparison: after the failure-free second run, the process is
\* started on the catalog as it was before the first start
Reference ==
  /\ run = 2
  /\ pc = "done"
  /\ failCount = 0
  /\ run' = 3
  /\ result' = [stopped |-> result.stopped, failCount |-> result.failCount,
                pc |-> result.pc, again |-> Canon]
  /\ products' = start.products
  /\ metafields' = start.metafields
  /\ collects' = {}
  /\ UNCHANGED <<collections, nextId>>
  /\ faults' = MaxFaults
  /\ ProcessStarts
  /\ UNCHANGED <<env, input, output, script, start>>

RestartNext == Next \/ Restart \/ Reference

RestartSpec == RestartInit /\ [][RestartNext]_vars

(***************************************************************************)
(* Properties.                                                             *)
(***************************************************************************)
LastReq(rs) == rs[Len(rs)]

\* this step submitted one more catalog request
Submitted == Len(reqs') = Len(reqs) + 1

IsProductCreate(r) == r.method = "POST" /\ r.path = "/products.json"

ProductsWithSku(sku) == { q \in products : q.sku = sku }

LastCall == calls[Len(calls)]

\* C1: after any sequence of reconcile calls, successful or failed, the
\* catalog holds at most one product with SKU DCG-<id> for every instance
\* id, and a call never submits a product create while a product with the
\* item's SKU exists.
C1_OneProductPerInstance ==
  /\ [](\A id \in InstanceIds :
          Cardinality(ProductsWithSku(<<"D","C","G","-">> \o toString(id))) <= 1)
  /\ [][ (Submitted /\ IsProductCreate(LastReq(reqs')))
           => ProductsWithSku(<<"D","C","G","-">>
                              \o toString(Cur.instance_id)) = {} ]_vars

\* two calls for the same instance id have ended, the first one successful,
\* and the catalog holds the one product of that instance id
C1_Witness ==
  /\ Len(calls) = 2
  /\ calls[1].ok
  /\ calls[1].item.instance_id = calls[2].item.instance_id
  /\ Cardinality(ProductsWithSku(<<"D","C","G","-">>
                 \o toString(calls[2].item.instance_id))) = 1
  /\ nextId > 1

\* C2: when ensureProductFromDiscogsItem succeeds twice in a row with the
\* same item, the catalog (products with SKU and tags, metadata map) after
\* the second call equals the catalog after the first.
C2_ReconcileIdempotent ==
  (/\ Len(calls) = 2
   /\ calls[1].ok
   /\ calls[2].ok
   /\ calls[1].item = calls[2].item)
  => calls[2].view = calls[1].view

\* the same item was reconciled twice in a row, first on the create path
\* (the product is one this run made), then on the update path
C2_Witness ==
  /\ Len(calls) = 2
  /\ calls[1].ok
  /\ calls[2].ok
  /\ calls[1].item = calls[2].item
  /\ \E q \in products :
       /\ q.sku = Derived[calls[2].item].sku
       /\ q.title = Derived[calls[2].item].title
  /\ \E r \in Range(reqs) : r.method = "PUT" /\ r.path = "/products/{id}.json"
  /\ \E r \in Range(reqs) : r.method = "PUT" /\ r.path = "/metafields/{id}.json"

ProductCreates(rs) == SelectSeq(rs, IsProductCreate)

\* a create of this call was answered, or is being answered, with an error
\* that the code does not recover from
RetryFails ==
  /\ pc = "create_retry"
  /\ Submitted
  /\ products' = products

\* C3: a create refused because the handle is taken is retried exactly once,
\* with the handle <original>-<lowercase SKU>; a retry that fails, a second
\* collision included, propagates with no further retry; one reconcile call
\* submits at most two product creates.
C3_OneRetryOnHandleCollision ==
  /\ [](/\ Len(ProductCreates(reqs)) <= 2
        /\ Len(ProductCreates(reqs)) = 2 =>
             LET first == ProductCreates(reqs)[1].body
                 second == ProductCreates(reqs)[2].body
             IN  /\ second.handle = first.handle \o <<"-", "d", "c", "g", "-">>
                                      \o SubSeq(first.sku, 5, Len(first.sku))
                 /\ second = [first EXCEPT !.handle = second.handle])
  /\ [][ /\ (pc = "create" /\ Submitted /\ faults' = faults
               /\ \E q \in products : q.handle = createPayload.handle)
             => (pc' = "create_retry" /\ failures' = failures)
         /\ (pc' = "create_retry")
             => (pc = "create" /\ \E q \in products : q.handle = createPayload.handle)
         /\ RetryFails
             => /\ pc' = "items"
                /\ itemIdx' = itemIdx + 1
                /\ Len(failures') = Len(failures) + 1
                /\ LastReq(failures').msg.method = "POST"
                /\ LastReq(failures').msg.path = "/products.json" ]_vars

\* a call ended in failure after its second create was refused for the
\* handle as well
C3_Witness ==
  /\ pc = "items"
  /\ Len(calls) >= 1
  /\ ~LastCall.ok
  /\ Len(ProductCreates(reqs)) = 2
  /\ Len(failures) >= 1
  /\ LastReq(failures).msg.text = HandleTakenBody

IsMetafieldPost(r) ==
  r.method = "POST" /\ r.path = "/products/{id}/metafields.json"
IsMetafieldPut(r) == r.method = "PUT" /\ r.path = "/metafields/{id}.json"
IsMetafieldWrite(r) == IsMetafieldPost(r) \/ IsMetafieldPut(r)

\* nothing is left of the value once its white space is taken off both ends
Blank(s) == s = Undefined \/ \A i \in DOMAIN s : s[i] \in WhiteSpace

\* the fields of every item of the pool, as the item has them
RawFields == [i \in ItemPool |-> MetafieldsOf(i)]

\* the value the item gives the field the loop is at
RawField == RawFields[Cur][kvIdx].raw

InUpsertLoop == pc = "mf_loop" /\ kvIdx <= 11

\* C4: every metadata write, POST or PUT, carries a value that is not empty
\* after trimming; a field that is absent, empty or white space only causes
\* no write; no metadata entry of the catalog has an empty value.
C4_NoBlankMetafieldWrite ==
  /\ [](/\ \A i \in DOMAIN reqs :
             IsMetafieldWrite(reqs[i]) => ~Blank(reqs[i].body.value)
        /\ \A m \in metafields : ~Blank(m.value))
  /\ [][ (InUpsertLoop /\ Blank(RawField))
           => (reqs' = reqs /\ metafields' = metafields /\ kvIdx' = kvIdx + 1) ]_vars

\* an item with white-space-only notes and no release id went through the
\* whole upsert: its other fields were written, those two were not
C4_Witness ==
  /\ Len(calls) >= 1
  /\ LastCall.ok
  /\ LastCall.item = ItemC
  /\ \E i \in DOMAIN reqs : IsMetafieldPost(reqs[i])
  /\ \E q \in products :
       /\ q.sku = Derived[ItemC].sku
       /\ \E m \in metafields : m.owner = q.id /\ m.key = "instance_id"
       /\ ~\E m \in metafields : m.owner = q.id /\ m.key \in {"notes", "release_id"}

EntriesIn(mfs, owner, namespace, key) ==
  { m \in mfs : m.owner = owner /\ m.namespace = namespace /\ m.key = key }

EntriesOf(owner, namespace, key) == EntriesIn(metafields, owner, namespace, key)

\* C5: a product has at most one metadata entry per namespace and key; an
\* entry that exists is overwritten (PUT on its id), an entry is created
\* (POST) only when the product has none of that key, and at most once per
\* key within one call.
C5_OneEntryPerKey ==
  /\ [](/\ \A m1 \in metafields : \A m2 \in metafields :
             (m1.owner = m2.owner /\ m1.namespace = m2.namespace
                /\ m1.key = m2.key) => m1.id = m2.id
        /\ \A i \in DOMAIN reqs : \A j \in DOMAIN reqs :
             (i < j /\ IsMetafieldPost(reqs[i]) /\ IsMetafieldPost(reqs[j]))
               => reqs[i].body.key # reqs[j].body.key)
  /\ [][ /\ (Submitted /\ IsMetafieldPost(LastReq(reqs')))
             => EntriesOf(LastReq(reqs').id, LastReq(reqs').body.namespace,
                          LastReq(reqs').body.key) = {}
         /\ (Submitted /\ IsMetafieldPut(LastReq(reqs')))
             => \E m \in metafields :
                  /\ m.id = LastReq(reqs').id
                  /\ m.owner = Owner
                  /\ <<m.namespace, m.key>> = RawFields[Cur][kvIdx].full
         /\ (InUpsertLoop /\ ~Blank(RawField) /\ faults' = faults)
             => LET k == RawFields[Cur][kvIdx].full
                    v == trim(RawField)
                    o == Owner
                IN  /\ Cardinality(EntriesIn(metafields', o, k[1], k[2])) = 1
                    /\ \A m \in EntriesIn(metafields', o, k[1], k[2]) :
                         m.value = v ]_vars

\* a second call for a product overwrote the entries the first call made:
\* the product has its eleven-field metadata, one entry per key
C5_Witness ==
  /\ Len(calls) = 2
  /\ calls[1].ok
  /\ calls[2].ok
  /\ calls[1].item.instance_id = calls[2].item.instance_id
  /\ \E i \in DOMAIN reqs : IsMetafieldPut(reqs[i])
  /\ \E q \in products :
       /\ q.sku = Derived[calls[2].item].sku
       /\ Cardinality(EntriesOf(q.id, "discogs", "media_condition")) = 1
       /\ \A m \in EntriesOf(q.id, "discogs", "media_condition") :
            m.value = calls[2].item.media_condition

\* C9: metadata is never cleared by an empty update: while an item is being
\* reconciled, an entry of its product whose field is blank in the item
\* keeps its id and value, no write for that key is issued, and no entry
\* for that key is created.
C9_BlankNeverClears ==
  [][ (pc \in {"update", "mf_list", "mf_loop", "coll_find", "coll_add"})
        => \A k \in DOMAIN RawFields[Cur] :
             Blank(RawFields[Cur][k].raw)
               => LET f == RawFields[Cur][k].full
                      q == CHOOSE x \in existing : TRUE
                  IN  /\ EntriesIn(metafields', q.id, f[1], f[2])
                           = EntriesOf(q.id, f[1], f[2])
                      /\ Submitted /\ IsMetafieldPost(LastReq(reqs'))
                           => LastReq(reqs').body.key # f[2]
                      /\ Submitted /\ IsMetafieldPut(LastReq(reqs'))
                           => \A m \in EntriesOf(q.id, f[1], f[2]) :
                                m.id # LastReq(reqs').id ]_vars

\* the product had notes from an earlier run; the item came again with its
\* notes emptied and was reconciled; the notes are still there
C9_Witness ==
  /\ Len(calls) >= 1
  /\ LastCall.ok
  /\ LastCall.item = ItemB
  /\ EditedNotes \in metafields
  /\ \E i \in DOMAIN reqs : IsMetafieldWrite(reqs[i])

InReconcile ==
  pc \in {"find_variants", "find_product", "create", "create_retry", "update",
          "mf_list", "mf_loop", "coll_find", "coll_add"}

\* this step is a request of the reconciliation that was answered with an
\* error the reconciliation does not recover from
ReconcileThrows ==
  /\ pc \in {"find_variants", "find_product", "create", "create_retry",
             "update", "mf_list", "mf_loop"}
  /\ Submitted
  /\ \/ faults' = faults + 1
     \/ pc = "create_retry" /\ products' = products

\* the items of the current page that have not been passed to reconciliation
Remaining ==
  IF pc = "items" THEN Len(data.releases) - itemIdx + 1
  ELSE IF InReconcile THEN Len(data.releases) - itemIdx
  ELSE 0

\* C6: a failure thrown by the reconciliation of one item is caught and
\* recorded as (instance id, message), and the run goes on with the next
\* item of the page; every item the source delivered is passed to
\* reconciliation before the next page or folder is requested, and a run
\* that ends has gone through every configured folder.
C6_ItemFailureDoesNotStopRun ==
  /\ [][ ReconcileThrows
           => /\ failCount' = failCount + 1
              /\ failures' = Append(failures,
                                    [instance |-> Cur.instance_id,
                                     msg |-> LastReq(failures').msg])
              /\ LastReq(failures').msg.method = LastReq(reqs').method
              /\ LastReq(failures').msg.path = LastReq(reqs').path
              /\ pc' = "items"
              /\ itemIdx' = itemIdx + 1
              /\ <<folderIdx, page, data>>' = <<folderIdx, page, data>> ]_vars
  /\ [](pc # "crashed" => attempted + Remaining = delivered)
  /\ [](pc = "done" => (folderIdx = NumFolders + 1 /\ attempted = delivered))

\* an item failed, the item delivered after it was reconciled, and the run
\* went on through the last folder and ended
C6_Witness ==
  /\ pc = "done"
  /\ Len(failures) = 1
  /\ Len(calls) = 2
  /\ ~calls[1].ok
  /\ calls[2].ok
  /\ attempted = 2

\* the folder whose page requests are in fetched has been left
FolderDone == fetched # <<>> /\ pc \in {"folders", "done"}

\* every answer of the folder reported n pages in total
Consistently(n) == \A i \in DOMAIN fetched : fetched[i].ok /\ fetched[i].pages = n

\* C7: syncFolder requests the pages in ascending order from page 1, goes on
\* to page p + 1 only when the answer to page p reported more than p pages,
\* and stops after the first page p whose answer reported at most p pages
\* (or carried no pagination block); when every answer reports N >= 1 pages,
\* pages 1..N are requested once each and none beyond N.
C7_PaginationExact ==
  /\ \A i \in DOMAIN fetched : fetched[i].page = i
  /\ \A i \in DOMAIN fetched :
       i < Len(fetched)
         => /\ fetched[i].ok
            /\ fetched[i].pages # NoPagination
            /\ fetched[i].page < fetched[i].pages
  /\ pc = "fetch" => page = Len(fetched) + 1
  /\ (pc = "items" \/ InReconcile) => page = Len(fetched)
  /\ FolderDone
       => /\ fetched[Len(fetched)].ok
          /\ \/ fetched[Len(fetched)].pages = NoPagination
             \/ fetched[Len(fetched)].page >= fetched[Len(fetched)].pages
  /\ \A n \in 1..(MaxPages + 1) :
       Consistently(n)
         => /\ Len(fetched) <= n
            /\ pc = "fetch" => page <= n
            /\ FolderDone => Len(fetched) = n

\* a folder whose answers all reported two pages: pages 1 and 2 were
\* requested and the folder was left
C7_Witness ==
  /\ FolderDone
  /\ Consistently(2)
  /\ Len(fetched) = 2
  /\ attempted >= 1

FreshTags(item) ==
  {SourceTag}
    \cup (IF item.media_condition \in {Undefined, <<>>} THEN {}
          ELSE {GradePrefix \o SelectSeq(item.media_condition,
                                         LAMBDA c : c \notin WhiteSpace)})
    \cup (IF item.sleeve_condition \in {Undefined, <<>>} THEN {}
          ELSE {SleevePrefix \o SelectSeq(item.sleeve_condition,
                                          LAMBDA c : c \notin WhiteSpace)})

IsProductPut(r) == r.method = "PUT" /\ r.path = "/products/{id}.json"

\* C8: on the update path one patch is submitted, holding only the product
\* id and the freshly computed tags; it leaves title, description, handle,
\* status, variants and images as they were and makes the tags exactly the
\* freshly computed set; nothing else of the call touches the product, and
\* no create (hence no image) is submitted.
C8_UpdateIsMinimalPatch ==
  /\ [](/\ Len(SelectSeq(reqs, IsProductPut)) <= 1
        /\ Len(SelectSeq(reqs, IsProductPut)) = 1 => ProductCreates(reqs) = <<>>)
  /\ [][ /\ (pc = "update" /\ pc' = "mf_list")
             => LET r == LastReq(reqs')
                    q == CHOOSE x \in products : x.sku = Derived[Cur].sku
                IN  /\ Submitted
                    /\ IsProductPut(r)
                    /\ DOMAIN r.body = {"id", "tags"}
                    /\ r.body.id = q.id
                    /\ r.id = q.id
                    /\ products' = (products \ {q})
                                     \cup {[q EXCEPT !.tags = FreshTags(Cur)]}
         /\ (pc = "update" /\ pc' # "mf_list") => products' = products
         /\ (pc \in {"find_variants", "find_product", "mf_list", "mf_loop",
                     "coll_find", "coll_add"})
             => products' = products ]_vars

\* the product of an earlier run, edited by the merchant, was patched for
\* the regraded item: new grade tag, old grade tag and the merchant's tag
\* gone, title, description, handle, status and images as the merchant left them
C8_Witness ==
  /\ pc = "mf_list"
  /\ Cur = ItemB
  /\ \E r \in Range(reqs) : IsProductPut(r)
  /\ [EditedProduct EXCEPT
        !.tags = {SourceTag, <<"g","r","a","d","e",":","V","G","+">>}]
       \in products
  /\ EditedProduct.title # Derived[ItemB].title
  /\ EditedProduct.images # Derived[ItemB].images

Texts == { out[i].text : i \in DOMAIN out }

\* C10: every run that passes the configuration check reports completion:
\* a process that has ended after passing the check has written the final
\* summary and the completion message, whatever the number of failures.
C10_RunReportsCompletion ==
  pc \in {"done", "crashed"}
    => /\ "Sync complete." \in Texts
       /\ \/ "Sync finished with 0 failures." \in Texts
          \/ "Sync finished with failed item(s)." \in Texts

IsCollectionRequest(r) ==
  r.path \in {"/custom_collections.json?handle=", "/collects.json"}

IsMetafieldList(r) ==
  r.method = "GET" /\ r.path = "/products/{id}/metafields.json"

InLinkage == pc \in {"coll_find", "coll_add"}

\* C11: a failure of the collection lookup or of the membership-link create
\* never fails the reconcile: the call returns the product, nothing is added
\* to the failures, and products and metadata stay as the call left them; no
\* membership link exists unless a collection handle is configured and the
\* lookup finds the collection.
C11_LinkageFailureIsSwallowed ==
  /\ [][ InLinkage
           => /\ products' = products
              /\ metafields' = metafields
              /\ failCount' = failCount
              /\ failures' = failures
              /\ pc' \in {"items", "coll_add"}
              /\ pc' = "items"
                   => /\ itemIdx' = itemIdx + 1
                      /\ LastReq(calls').ok
                      /\ LastReq(calls').item = Cur
                      /\ \E q \in products' :
                           q.id = (CHOOSE x \in existing : TRUE).id
              /\ faults' = faults + 1
                   => (pc' = "items" /\ collects' = collects) ]_vars
  /\ [][ collects' # collects
           => /\ pc = "coll_add"
              /\ env.COLLECTION_HANDLE # <<"undefined">>
              /\ \E c \in collections :
                   /\ c.handle = env.COLLECTION_HANDLE
                   /\ collects' = collects
                        \cup {[product_id |-> (CHOOSE q \in existing : TRUE).id,
                               collection_id |-> c.id]} ]_vars
  /\ [](env.COLLECTION_HANDLE = <<"undefined">>
          => /\ collects = {}
             /\ \A i \in DOMAIN reqs : ~IsCollectionRequest(reqs[i]))
  /\ []((~\E c \in collections : c.handle = env.COLLECTION_HANDLE)
          => collects = {})

\* the membership-link create of a call failed; the call returned, the
\* product and its metadata are in the catalog, nothing was recorded
C11_Witness ==
  /\ pc = "items"
  /\ faults = 1
  /\ failCount = 0
  /\ failures = <<>>
  /\ LastCall.ok
  /\ LastReq(reqs).path = "/collects.json"
  /\ collects = {}
  /\ \E q \in products :
       /\ q.sku = Derived[LastCall.item].sku
       /\ \E m \in metafields : m.owner = q.id /\ m.key = "instance_id"

\* C12: a create failure that is not the handle collision propagates to the
\* caller without a retry: one product create was submitted, the catalog is
\* unchanged, and no metadata request and no collection request is made for
\* the item in that call.
C12_OtherCreateFailurePropagates ==
  [][ (pc = "create" /\ faults' = faults + 1)
        => /\ pc' = "items"
           /\ itemIdx' = itemIdx + 1
           /\ ~LastReq(calls').ok
           /\ failCount' = failCount + 1
           /\ Len(failures') = Len(failures) + 1
           /\ LastReq(failures').instance = Cur.instance_id
           /\ LastReq(failures').msg.method = "POST"
           /\ LastReq(failures').msg.path = "/products.json"
           /\ LastReq(failures').msg.status = 500
           /\ Len(ProductCreates(reqs')) = 1
           /\ \A i \in DOMAIN reqs' :
                /\ ~IsMetafieldWrite(reqs'[i])
                /\ ~IsMetafieldList(reqs'[i])
                /\ ~IsCollectionRequest(reqs'[i])
           /\ <<products, metafields, collections, collects, nextId>>'
                = <<products, metafields, collections, collects, nextId>> ]_vars

\* a call ended after its one create was answered 500: no product of the
\* item exists
C12_Witness ==
  /\ pc = "items"
  /\ Len(calls) >= 1
  /\ ~LastCall.ok
  /\ Len(ProductCreates(reqs)) = 1
  /\ IsProductCreate(LastReq(reqs))
  /\ LastReq(failures).msg.status = 500
  /\ ProductsWithSku(Derived[LastCall.item].sku) = {}

\* this step submitted a request to the catalog, or to the source
CatalogRequest == reqs' # reqs /\ reqs' # <<>>
SourceRequest == fetched' # fetched /\ fetched' # <<>>

\* C14: the run is strictly sequential: a step submits at most one request,
\* the one the position of the process calls for, and has its answer before
\* the next step; the reconciliation of an item starts only when every
\* earlier one has ended; a page is requested, and a folder is left, only
\* when every delivered item was passed to reconciliation and has ended;
\* the folders are taken one by one in the configured order.
C14_StrictlySequential ==
  /\ [][ /\ ~(CatalogRequest /\ SourceRequest)
         /\ CatalogRequest
              => (InReconcile /\ reqs' = Append(reqs, LastReq(reqs')))
         /\ SourceRequest
              => (pc = "fetch" /\ fetched' = Append(fetched, LastReq(fetched')))
         /\ attempted' # attempted
              => /\ pc = "items" /\ pc' = "find_variants"
                 /\ attempted' = attempted + 1
                 /\ attempted < 2 => Len(calls) = attempted
         /\ calls' # calls => (InReconcile /\ pc' = "items")
         /\ pc' = "fetch" => (pc \in {"folders", "items"} /\ attempted = delivered)
         /\ folderIdx' # folderIdx
              => /\ folderIdx' = folderIdx + 1
                 /\ pc \in {"boot", "items"}
                 /\ attempted = delivered
         /\ page' # page
              => \/ pc = "folders" /\ page' = 1
                 \/ pc = "items" /\ page' = page + 1 /\ folderIdx' = folderIdx ]_vars
  /\ []((InReconcile /\ attempted <= 2) => Len(calls) = attempted - 1)
  /\ [](pc \in {"fetch", "items"} \/ InReconcile => folderIdx \in 1..NumFolders)

\* a run that ended after two items, the last of them delivered by the
\* second page of the last folder
C14_Witness ==
  /\ pc = "done"
  /\ attempted = 2
  /\ Len(calls) = 2
  /\ Len(fetched) = 2
  /\ data.releases # <<>>

\* the first min(20, n) elements, for lists shorter and longer than 20
First20Caps ==
  \A n \in 0..23 :
    First20([i \in 1..n |-> i]) = [i \in 1..(IF n < 20 THEN n ELSE 20) |-> i]

Min20(n) == IF n < 20 THEN n ELSE 20

\* this step is the one in which the reconciliation of an item ended, by
\* returning or by throwing into the catch of the item loop
CallEnded == InReconcile /\ pc' = "items"

\* C15: failCount equals the length of failures at every point; an item
\* whose reconciliation threw adds exactly one entry, at the end, and nothing
\* else adds or removes one; at the end of the run the summary reports the
\* count, followed by the first min(20, count) failures in order and the
\* completion message; a count of 0 is reported as zero failures.
C15_FailureAccounting ==
  /\ [](failCount = Len(failures))
  /\ [](First20Caps)
  /\ [][ /\ failures' # failures
              => /\ CallEnded
                 /\ ~LastReq(calls').ok
                 /\ Len(failures') = Len(failures) + 1
                 /\ SubSeq(failures', 1, Len(failures)) = failures
                 /\ LastReq(failures').instance = Cur.instance_id
         /\ CallEnded
              => (LastReq(calls').ok <=> failures' = failures) ]_vars
  /\ [](attempted <= 2
          => [i \in 1..Len(failures) |-> failures[i].instance]
               = [i \in 1..Len(SelectSeq(calls, LAMBDA c : ~c.ok)) |->
                    SelectSeq(calls, LAMBDA c : ~c.ok)[i].item.instance_id])
  /\ [](pc = "done"
          => LET n == Len(out)
                 m == Min20(failCount)
             IN  /\ n >= m + 2
                 /\ out[n] = [stream |-> "stdout", text |-> "Sync complete."]
                 /\ out[n - m - 1].count = failCount
                 /\ out[n - m - 1].text =
                      (IF failCount = 0 THEN "Sync finished with 0 failures."
                       ELSE "Sync finished with failed item(s).")
                 /\ \A i \in 1..m :
                      /\ out[n - m - 1 + i].text = "- failure"
                      /\ out[n - m - 1 + i].detail = failures[i])

\* a run that ended with two recorded failures
C15_Witness ==
  /\ pc = "done"
  /\ failCount = 2
  /\ Len(calls) = 2
  /\ ~calls[1].ok
  /\ ~calls[2].ok

\* C16: when a required configuration value (catalog domain, catalog token,
\* source username, source token) is missing, the process ends with exit
\* code 1 before any request to the source or the catalog: no folder is
\* synced and the catalog is as it was.
C16_MissingConfigStopsBeforeAnyRequest ==
  /\ []((\E k \in {"SHOPIFY_STORE_DOMAIN", "SHOPIFY_ADMIN_TOKEN",
                   "DISCOGS_USERNAME", "DISCOGS_TOKEN"} : ~env[k])
          => /\ pc \in {"boot", "exit1"}
             /\ reqs = <<>> /\ fetched = <<>> /\ calls = <<>>
             /\ delivered = 0 /\ attempted = 0 /\ folderIdx = 0
             /\ collects = {}
             /\ \E c \in InitialCatalogs :
                  /\ products = c.products
                  /\ metafields = c.metafields
                  /\ nextId = c.nextId
             /\ pc = "boot" => out = <<>>
             /\ pc = "exit1"
                  => out = <<[stream |-> "stderr",
                              text |-> "Missing required env vars."]>>)
  /\ [][pc # "exit1"]_vars

\* the process has ended with exit code 1: only the source token is missing
C16_Witness ==
  /\ pc = "exit1"
  /\ ~env.DISCOGS_TOKEN
  /\ env.SHOPIFY_STORE_DOMAIN /\ env.SHOPIFY_ADMIN_TOKEN /\ env.DISCOGS_USERNAME
  /\ products # {}

RECURSIVE Names(_)
Names(artists) ==
  IF Len(artists) = 1 THEN artists[1]
  ELSE artists[1] \o <<",", " ">> \o Names(Tail(artists))

ExpectedTitle(item) ==
  IF item.artists = <<>> THEN item.title
  ELSE Names(item.artists) \o <<" ", "&ndash;", " ">> \o item.title

\* C18: the product created for an item that has none yet has the SKU
\* DCG-<instance id>, the configured default status ('draft' when none is
\* configured), the title <artists joined by ', '> - <title> (the bare
\* title without artists), and as tags source:discogs, grade:<media grade
\* without white space> exactly when the media grade is not empty, and
\* sleeve:<sleeve grade without white space> exactly when the sleeve grade
\* is not empty.
C18_CreatedProductFields ==
  [][ products' # products /\ pc \in {"create", "create_retry"}
        => \E q \in products' :
             /\ q \notin products
             /\ products' = products \cup {q}
             /\ ProductsWithSku(q.sku) = {}
             /\ q.sku = <<"D","C","G","-">> \o toString(Cur.instance_id)
             /\ q.status = (IF env.DEFAULT_PRODUCT_STATUS = "" THEN "draft"
                            ELSE env.DEFAULT_PRODUCT_STATUS)
             /\ q.title = ExpectedTitle(Cur)
             /\ q.tags = FreshTags(Cur) ]_vars

\* two products were created as drafts: one for an item with two artists
\* and a media grade that has a space, one for an item with no artist, no
\* media grade and a sleeve grade
C18_Witness ==
  /\ \E q \in products :
       /\ q.sku = <<"D","C","G","-","1">>
       /\ q.status = "draft"
       /\ q.title = <<"J", ",", " ", "K", " ", "&ndash;", " ", "B", "l">>
       /\ q.tags = {SourceTag, <<"g","r","a","d","e",":","N","M">>}
  /\ \E q \in products :
       /\ q.sku = <<"D","C","G","-","2">>
       /\ q.status = "draft"
       /\ q.title = <<"B", "l">>
       /\ q.tags = {SourceTag, <<"s","l","e","e","v","e",":","G">>}

\* C19: a failed page request is not caught: it is not recorded in the
\* failures, it ends the process where it is, so that no further page and no
\* further folder is processed, and neither the summary nor the completion
\* message is written.
C19_PageFailureEndsRun ==
  /\ [][ (pc = "fetch" /\ faults' = faults + 1)
           => /\ pc' = "crashed"
              /\ failCount' = failCount
              /\ failures' = failures
              /\ <<folderIdx, page, data, attempted, delivered, calls>>'
                   = <<folderIdx, page, data, attempted, delivered, calls>>
              /\ <<products, metafields, collections, collects, nextId>>'
                   = <<products, metafields, collections, collects, nextId>>
              /\ ~LastReq(fetched').ok ]_vars
  /\ [][pc # "crashed"]_vars
  /\ [](pc = "crashed"
          => /\ ~LastReq(fetched).ok
             /\ "Sync complete." \notin Texts
             /\ "Sync finished with 0 failures." \notin Texts
             /\ "Sync finished with failed item(s)." \notin Texts
             /\ "Unhandled rejection" \in Texts)

\* the request for the second page of the first folder failed after an item
\* of the first page was reconciled: the process has ended in the first of
\* the folders
C19_Witness ==
  /\ pc = "crashed"
  /\ folderIdx = 1
  /\ folderIdx < NumFolders
  /\ Len(fetched) = 2
  /\ fetched[1].pages = 2
  /\ attempted >= 1
  /\ failures = <<>>

\* the item the requests in reqs were made for
ReqItem == IF InReconcile THEN Cur ELSE LastCall.item

FieldIndexOf(item, full) ==
  CHOOSE k \in DOMAIN RawFields[item] : RawFields[item][k].full = full

\* the position in the field order of the field a metadata write is for
WriteIndex(r) ==
  IF IsMetafieldPost(r)
  THEN FieldIndexOf(ReqItem, <<r.body.namespace, r.body.key>>)
  ELSE LET m == CHOOSE x \in metafields : x.id = r.id
       IN  FieldIndexOf(ReqItem, <<m.namespace, m.key>>)

\* the stage of the call a request belongs to
Rank(r) ==
  IF r.path = "/variants.json?sku=" THEN 1
  ELSE IF r.method = "GET" /\ r.path = "/products/{id}.json" THEN 2
  ELSE IF IsProductCreate(r) \/ IsProductPut(r) THEN 3
  ELSE IF IsMetafieldList(r) THEN 4
  ELSE IF IsMetafieldWrite(r) THEN 5
  ELSE IF r.path = "/custom_collections.json?handle=" THEN 6
  ELSE 7

InMetadata == pc \in {"mf_list", "mf_loop"}

\* C20: the requests of one call come in the fixed order SKU lookup, product
\* create or update, metadata listing, metadata writes in field order,
\* collection linkage; a failed metadata listing or write ends the call as
\* one recorded failure and undoes nothing: the product and the metadata
\* written so far stay, no further field and no collection request follows;
\* the next call for that instance id finds the product and updates it.
C20_NoRollback ==
  /\ [](/\ reqs # <<>> => Rank(reqs[1]) = 1
        /\ \A i \in DOMAIN reqs : \A j \in DOMAIN reqs :
             i < j
               => /\ Rank(reqs[i]) <= Rank(reqs[j])
                  /\ Rank(reqs[i]) = Rank(reqs[j])
                       => \/ Rank(reqs[i]) = 3 /\ IsProductCreate(reqs[j])
                          \/ /\ Rank(reqs[i]) = 5
                             /\ WriteIndex(reqs[i]) < WriteIndex(reqs[j])
        /\ \A j \in DOMAIN reqs :
             Rank(reqs[j]) >= 4
               => \E i \in 1..(j - 1) : Rank(reqs[i]) = 3)
  /\ [][ /\ (InMetadata /\ faults' = faults + 1)
             => /\ products' = products
                /\ metafields' = metafields
                /\ collects' = collects
                /\ ProductsWithSku(Derived[Cur].sku) # {}
                /\ pc' = "items"
                /\ itemIdx' = itemIdx + 1
                /\ failCount' = failCount + 1
                /\ Len(failures') = Len(failures) + 1
                /\ LastReq(failures').instance = Cur.instance_id
                /\ ~LastReq(calls').ok
                /\ LastReq(calls').view = View
                /\ Rank(LastReq(reqs')) \in {4, 5}
         /\ (pc = "find_variants" /\ faults' = faults)
             => IF ProductsWithSku(Derived[Cur].sku) # {}
                THEN pc' = "find_product"
                ELSE pc' = "create"
         /\ (pc = "find_product" /\ faults' = faults)
             => /\ pc' = "update"
                /\ existing' = ProductsWithSku(Derived[Cur].sku) ]_vars

\* a call created the product and failed while writing its metadata, some
\* of it written; the next call, for the same instance id, updated the
\* product and completed the metadata
C20_Witness ==
  /\ Len(calls) = 2
  /\ ~calls[1].ok
  /\ calls[2].ok
  /\ calls[1].item.instance_id = calls[2].item.instance_id
  /\ failures # <<>>
  /\ LastReq(failures).msg.path = "/products/{id}/metafields.json"
  /\ LastReq(failures).msg.method = "POST"
  /\ \E q \in calls[1].view.products :
       /\ q.sku = Derived[calls[1].item].sku
       /\ q.id >= 1
       /\ \E m \in calls[1].view.metafields : m.owner = q.id
       /\ Cardinality({m \in calls[1].view.metafields : m.owner = q.id})
            < Cardinality({m \in calls[2].view.metafields : m.owner = q.id})
  /\ \E i \in DOMAIN reqs : IsProductPut(reqs[i])

\* C17: slugify is total: for every input, undefined and the empty string
\* included, the call does not throw and gives a string of characters of
\* [a-z0-9-] with no hyphen at its start, none at its end and no two
\* hyphens in a row.
C17_SlugifyTotal ==
  output # NotCalled
    => /\ output # <<"TypeError">>
       /\ \A i \in DOMAIN output :
            output[i] \in {"a","b","c","d","e","f","g","h","i","j","k","l",
                           "m","n","o","p","q","r","s","t","u","v","w","x",
                           "y","z","0","1","2","3","4","5","6","7","8","9",
                           "-"}
       /\ output # <<>> => (output[1] # "-" /\ output[Len(output)] # "-")
       /\ \A i \in 1..(Len(output) - 1) :
            ~(output[i] = "-" /\ output[i + 1] = "-")
       /\ input \in {<<"undefined">>, <<>>} => output = <<>>

\* slugify was called on undefined and gave the empty string
C17_Witness ==
  /\ input = <<"undefined">>
  /\ output = <<>>

\* the items of the script that have this instance id, in order, and those
\* of them that have something in field k
ItemsOf(id) == SelectSeq(ScriptItems, LAMBDA i : i.instance_id = id)

Writers(id, k) == SelectSeq(ItemsOf(id), LAMBDA i : ~Blank(RawFields[i][k].raw))

\* C13: restarting is idempotent: after a run that stopped at any point or
\* recorded failures, a complete failure-free run over the same source
\* items leaves exactly one product per instance id, with the freshly
\* computed tags and every non-blank metadata field, and the catalog
\* (products, tags, metadata, the ids of the service aside) is the one a
\* single failure-free run from the initial catalog leaves.
C13_RestartIsIdempotent ==
  /\ (run = 2 /\ pc = "done" /\ failCount = 0)
       => \A id \in { ScriptItems[i].instance_id : i \in DOMAIN ScriptItems } :
            LET sku == <<"D","C","G","-">> \o toString(id)
                its == ItemsOf(id)
            IN  /\ Cardinality(ProductsWithSku(sku)) = 1
                /\ \A q \in ProductsWithSku(sku) :
                     /\ q.tags = FreshTags(its[Len(its)])
                     /\ \A k \in DOMAIN RawFields[its[1]] :
                          LET w == Writers(id, k)
                              f == RawFields[its[1]][k].full
                          IN  w # <<>>
                                => /\ Cardinality(EntriesOf(q.id, f[1], f[2])) = 1
                                   /\ \A m \in EntriesOf(q.id, f[1], f[2]) :
                                        m.value = trim(RawFields[w[Len(w)]][k].raw)
  /\ (run = 3 /\ pc = "done")
       => /\ failCount = 0
          /\ Canon = result.again

\* the first run was stopped while it wrote the metadata of a product it
\* had created in an empty catalog; the second run completed it, and the
\* run from the empty catalog has ended with the same catalog
C13_Witness ==
  /\ run = 3
  /\ pc = "done"
  /\ failCount = 0
  /\ start.products = {}
  /\ result.pc = "mf_loop"
  /\ Canon = result.again
  /\ \E q \in result.stopped.products :
       /\ q.entries >= 1
       /\ \E r \in Canon.products :
            /\ r.product.sku = q.product.sku
            /\ r.entries > q.entries

=============================================================================
